---- MODULE Spec2Model ----
(***************************************************************************)
(* Event queries of the SIASIS API02 backend: the date-range filters, the  *)
(* count + find query helpers over the T_Eventos collection, the in-memory *)
(* conflict check, and the GET / events route that exposes the unified     *)
(* search.                                                                 *)
(*                                                                         *)
(* Instants are JavaScript Date values.  A time value in milliseconds does *)
(* not fit TLC's integers, so a Date is the pair [dia, ms]: the day number *)
(* since 1970-01-01 and the milliseconds within that day, both in the      *)
(* server's local time, which is taken to have a fixed UTC offset.         *)
(***************************************************************************)
EXTENDS Integers, Sequences, FiniteSets, TLC

VARIABLES
    coleccion,      \* the documents of the T_Eventos collection
    pc,             \* position of the call in progress
    funcion,        \* entry point of the call in progress
    query,          \* req.query of the HTTP request (raw strings)
    params,         \* { mes, año, limit, offset } handed to the query helper
    filtroComun,    \* the filter built for the call in progress
    total,          \* result of the countDocuments operation
    operaciones,    \* database operations issued by the call, in order
    retorno,        \* what the query helper returned or threw
    res,            \* the HTTP response sent (status and body)
    visto,          \* the matching documents as the find operation saw them
    escrituras,     \* writes by other processes during the call
    modificada,     \* a write happened between the count and the find
    fallo,          \* the operation that failed and what it threw
    llamada,        \* pure functions: function applied and its arguments
    salida          \* pure functions: value returned

vars == <<coleccion, pc, funcion, query, params, filtroComun, total,
          operaciones, retorno, res, visto, escrituras, modificada,
          fallo, llamada, salida>>

(***************************************************************************)
(* Bounds of the model.                                                    *)
(***************************************************************************)
MaxDocs == 3            \* documents in the collection when a call starts
MaxEscrituras == 1      \* writes by other processes during one call
MaxLista == 3           \* length of the list given to the conflict check

MAXIMA_CANTIDAD_EVENTOS == 100

(***************************************************************************)
(* JavaScript values.                                                      *)
(***************************************************************************)
Undefined == [t |-> "undefined", n |-> 0]
NaN == [t |-> "NaN", n |-> 0]
Num(n) == [t |-> "number", n |-> n]

isNaN(v) == v.t = "NaN"

Digitos == <<"0", "1", "2", "3", "4", "5", "6", "7", "8", "9">>

EsDigito(c) == \E i \in 1..10 : Digitos[i] = c

ValorDigito(c) == (CHOOSE i \in 1..10 : Digitos[i] = c) - 1

RECURSIVE ValorDigitos(_)
ValorDigitos(s) ==
    IF s = <<>> THEN 0
    ELSE 10 * ValorDigitos(SubSeq(s, 1, Len(s) - 1)) + ValorDigito(s[Len(s)])

TodosDigitos(s) == \A i \in 1..Len(s) : EsDigito(s[i])

RECURSIVE Trim(_)
Trim(s) ==
    IF s = <<>> THEN s
    ELSE IF s[1] = " " THEN Trim(Tail(s))
    ELSE IF s[Len(s)] = " " THEN Trim(SubSeq(s, 1, Len(s) - 1))
    ELSE s

\* Number(texto) for the strings a request of the model carries: white space
\* is 0, an optionally signed run of decimal digits is its value, and text
\* that is no numeric literal is NaN.
Number(texto) ==
    LET s == Trim(texto) IN
    IF s = <<>> THEN Num(0)
    ELSE IF s[1] \in {"-", "+"} /\ Len(s) > 1 /\ TodosDigitos(Tail(s))
         THEN Num((IF s[1] = "-" THEN -1 ELSE 1) * ValorDigitos(Tail(s)))
    ELSE IF TodosDigitos(s) THEN Num(ValorDigitos(s))
    ELSE NaN

\* A query parameter is absent or a string; the only falsy string is "".
Ausente == [dado |-> FALSE, texto |-> <<>>]
Texto(s) == [dado |-> TRUE, texto |-> s]
Truthy(p) == p.dado /\ p.texto # <<>>

(***************************************************************************)
(* JavaScript Date.                                                        *)
(***************************************************************************)
msPerDay == 24 * 60 * 60 * 1000

DaysInYear(y) ==
    IF y % 4 # 0 THEN 365
    ELSE IF y % 100 # 0 THEN 366
    ELSE IF y % 400 # 0 THEN 365
    ELSE 366

InLeapYear(y) == IF DaysInYear(y) = 366 THEN 1 ELSE 0

DayFromYear(y) ==
    365 * (y - 1970) + ((y - 1969) \div 4) - ((y - 1901) \div 100)
        + ((y - 1601) \div 400)

\* the day within the year on which month m (0 = January) starts
DiasAntesDelMes(m, leap) ==
    CASE m = 0 -> 0
      [] m = 1 -> 31
      [] m = 2 -> 59 + leap
      [] m = 3 -> 90 + leap
      [] m = 4 -> 120 + leap
      [] m = 5 -> 151 + leap
      [] m = 6 -> 181 + leap
      [] m = 7 -> 212 + leap
      [] m = 8 -> 243 + leap
      [] m = 9 -> 273 + leap
      [] m = 10 -> 304 + leap
      [] m = 11 -> 334 + leap

MakeDay(year, month, date) ==
    LET ym == year + (month \div 12)
        mn == month % 12
    IN DayFromYear(ym) + DiasAntesDelMes(mn, InLeapYear(ym)) + date - 1

\* new Date(year, monthIndex, day): a year 0..99 means 1900 + year
NewDate(year, month, date) ==
    LET yr == IF year >= 0 /\ year <= 99 THEN 1900 + year ELSE year
    IN [dia |-> MakeDay(yr, month, date), ms |-> 0]

\* date.setHours(h, m, s, ms): the same local day, the time of day replaced
setHours(fecha, h, m, s, milli) ==
    LET t == ((h * 60 + m) * 60 + s) * 1000 + milli
    IN [dia |-> fecha.dia + (t \div msPerDay), ms |-> t % msPerDay]

\* comparison of two Dates by time value
Lte(a, b) == a.dia < b.dia \/ (a.dia = b.dia /\ a.ms <= b.ms)
Gte(a, b) == Lte(b, a)

(***************************************************************************)
(* MongoDB filters and the operations executeMongoOperation runs.          *)
(***************************************************************************)
SinFecha == [dia |-> 0, ms |-> 0]

Cmp(op, campo, valor) ==
    [op |-> op, campo |-> campo, valor |-> valor, args |-> <<>>]
And(args) == [op |-> "$and", campo |-> "", valor |-> SinFecha, args |-> args]
Or(args) == [op |-> "$or", campo |-> "", valor |-> SinFecha, args |-> args]
FiltroVacio == [op |-> "{}", campo |-> "", valor |-> SinFecha, args |-> <<>>]

RECURSIVE Coincide(_, _)
Coincide(doc, f) ==
    CASE f.op = "{}" -> TRUE
      [] f.op = "$or" -> \E i \in 1..Len(f.args) : Coincide(doc, f.args[i])
      [] f.op = "$and" -> \A i \in 1..Len(f.args) : Coincide(doc, f.args[i])
      [] f.op = "$gte" -> Gte(doc[f.campo], f.valor)
      [] f.op = "$lte" -> Lte(doc[f.campo], f.valor)

Coincidentes(col, f) == {d \in col : Coincide(d, f)}

countDocuments(col, f) == Cardinality(Coincidentes(col, f))

\* the orders a sort { campo: 1 } may give: ties are in no fixed order
Ordenes(S, campo) ==
    {o \in [1..Cardinality(S) -> S] :
        /\ \A i, j \in DOMAIN o : i # j => o[i] # o[j]
        /\ \A i, j \in DOMAIN o : i < j => Lte(o[i][campo], o[j][campo])}

Proyectar(doc, projection) == [c \in projection |-> doc[c]]

\* skip, then limit (a limit of 0 is no limit)
Pagina(o, skip, limit) ==
    LET hasta == IF limit = 0 THEN Len(o)
                 ELSE IF skip + limit < Len(o) THEN skip + limit ELSE Len(o)
    IN SubSeq(o, skip + 1, hasta)

\* every result the find operation may give on collection col
find(col, f, options) ==
    {[i \in DOMAIN Pagina(o, options.skip, options.limit) |->
         Proyectar(Pagina(o, options.skip, options.limit)[i], options.projection)] :
       o \in Ordenes(Coincidentes(col, f), options.sort)}

\* ObjectId.toString(): the hexadecimal digits of the identifier
HexDigitos == <<"0", "1", "2", "3", "4", "5", "6", "7", "8", "9",
                "a", "b", "c", "d", "e", "f">>

toString(oid) == [i \in DOMAIN oid |-> HexDigitos[oid[i] + 1]]

(***************************************************************************)
(* The filters the query helpers build.                                    *)
(***************************************************************************)
\* buscarEventos: inicioMes, finMes and filtroComun
inicioMes(anioConsulta, mes) == NewDate(anioConsulta, mes - 1, 1)

\* an end of month that takes every month to have 31 days
finMesTreintaYUno(anioConsulta, mes) ==
    setHours(NewDate(anioConsulta, mes - 1, 31), 23, 59, 59, 999)

finMes(anioConsulta, mes) == setHours(NewDate(anioConsulta, mes, 0), 23, 59, 59, 999)

\* año || new Date().getFullYear(): undefined and 0 are falsy
anioConsulta(anio, anioActual) ==
    IF anio.t = "number" /\ anio.n # 0 THEN anio.n ELSE anioActual

\* a unified search that filters by the year when only the year is given
filtroBuscarEventosConAnio(mes, anio, anioActual) ==
    IF mes.t # "undefined"
    THEN LET a == anioConsulta(anio, anioActual) IN
         Or(<<And(<<Cmp("$gte", "Fecha_Inicio", inicioMes(a, mes.n)),
                    Cmp("$lte", "Fecha_Inicio", finMes(a, mes.n))>>),
              And(<<Cmp("$gte", "Fecha_Conclusion", inicioMes(a, mes.n)),
                    Cmp("$lte", "Fecha_Conclusion", finMes(a, mes.n))>>),
              And(<<Cmp("$lte", "Fecha_Inicio", inicioMes(a, mes.n)),
                    Cmp("$gte", "Fecha_Conclusion", finMes(a, mes.n))>>)>>)
    ELSE IF anio.t # "undefined"
    THEN Or(<<And(<<Cmp("$gte", "Fecha_Inicio", NewDate(anio.n, 0, 1)),
                    Cmp("$lte", "Fecha_Inicio", NewDate(anio.n, 11, 31))>>)>>)
    ELSE FiltroVacio

filtroBuscarEventos(mes, anio, anioActual) ==
    IF mes.t # "undefined"
    THEN LET a == anioConsulta(anio, anioActual) IN
         Or(<<And(<<Cmp("$gte", "Fecha_Inicio", inicioMes(a, mes.n)),
                    Cmp("$lte", "Fecha_Inicio", finMes(a, mes.n))>>),
              And(<<Cmp("$gte", "Fecha_Conclusion", inicioMes(a, mes.n)),
                    Cmp("$lte", "Fecha_Conclusion", finMes(a, mes.n))>>),
              And(<<Cmp("$lte", "Fecha_Inicio", inicioMes(a, mes.n)),
                    Cmp("$gte", "Fecha_Conclusion", finMes(a, mes.n))>>)>>)
    ELSE FiltroVacio

filtroBuscarEventosPorMes(mes, anio, anioActual) ==
    LET a == anioConsulta(anio, anioActual) IN
    Or(<<And(<<Cmp("$gte", "Fecha_Inicio", inicioMes(a, mes)),
               Cmp("$lte", "Fecha_Inicio", finMes(a, mes))>>),
         And(<<Cmp("$gte", "Fecha_Conclusion", inicioMes(a, mes)),
               Cmp("$lte", "Fecha_Conclusion", finMes(a, mes))>>),
         And(<<Cmp("$lte", "Fecha_Inicio", inicioMes(a, mes)),
               Cmp("$gte", "Fecha_Conclusion", finMes(a, mes))>>)>>)

\* buscarEventosPorAño: inicioAño, finAño and the filter
inicioAnio(anio) == NewDate(anio, 0, 1)

finAnio(anio) == setHours(NewDate(anio, 11, 31), 23, 59, 59, 999)

filtroBuscarEventosPorAnio(anio) ==
    Or(<<And(<<Cmp("$gte", "Fecha_Inicio", inicioAnio(anio)),
               Cmp("$lte", "Fecha_Inicio", finAnio(anio))>>),
         And(<<Cmp("$gte", "Fecha_Conclusion", inicioAnio(anio)),
               Cmp("$lte", "Fecha_Conclusion", finAnio(anio))>>),
         And(<<Cmp("$lte", "Fecha_Inicio", inicioAnio(anio)),
               Cmp("$gte", "Fecha_Conclusion", finAnio(anio))>>)>>)

\* a range filter without the clause of the events that span the range
filtroPorRangoSinAbarcar(fechaInicio, fechaFin) ==
    Or(<<And(<<Cmp("$gte", "Fecha_Inicio", fechaInicio),
               Cmp("$lte", "Fecha_Inicio", fechaFin)>>),
         And(<<Cmp("$gte", "Fecha_Conclusion", fechaInicio),
               Cmp("$lte", "Fecha_Conclusion", fechaFin)>>)>>)

filtroBuscarEventosPorRango(fechaInicio, fechaFin) ==
    Or(<<And(<<Cmp("$gte", "Fecha_Inicio", fechaInicio),
               Cmp("$lte", "Fecha_Inicio", fechaFin)>>),
         And(<<Cmp("$gte", "Fecha_Conclusion", fechaInicio),
               Cmp("$lte", "Fecha_Conclusion", fechaFin)>>),
         And(<<Cmp("$lte", "Fecha_Inicio", fechaInicio),
               Cmp("$gte", "Fecha_Conclusion", fechaFin)>>)>>)

\* a conflict check with exclusive bounds
RECURSIVE verificarConflictoEstricto(_, _, _)
verificarConflictoEstricto(fechaInicio, fechaFin, eventos) ==
    IF eventos = <<>> THEN <<>>
    ELSE LET evento == Head(eventos)
             resto == verificarConflictoEstricto(fechaInicio, fechaFin, Tail(eventos))
         IN IF ~Gte(evento.Fecha_Inicio, fechaFin)
               /\ ~Lte(evento.Fecha_Conclusion, fechaInicio)
            THEN <<evento>> \o resto
            ELSE resto

\* verificarConflictoConEventos: eventos.filter(...), a new list
RECURSIVE verificarConflictoConEventos(_, _, _)
verificarConflictoConEventos(fechaInicio, fechaFin, eventos) ==
    IF eventos = <<>> THEN <<>>
    ELSE LET evento == Head(eventos)
             inicioEvento == evento.Fecha_Inicio
             finEvento == evento.Fecha_Conclusion
             resto == verificarConflictoConEventos(fechaInicio, fechaFin, Tail(eventos))
         IN IF Lte(inicioEvento, fechaFin) /\ Gte(finEvento, fechaInicio)
            THEN <<evento>> \o resto
            ELSE resto

(***************************************************************************)
(* The operations buscarEventos and buscarEventosPorMes issue.             *)
(***************************************************************************)
SinOpciones == [sort |-> "", skip |-> 0, limit |-> 0, projection |-> {}]

\* a count that is not given the filter of the find
opCountSinFiltro(filtro) ==
    [operation |-> "countDocuments", collection |-> "T_Eventos",
     filter |-> FiltroVacio, options |-> SinOpciones]

opCount(filtro) ==
    [operation |-> "countDocuments", collection |-> "T_Eventos",
     filter |-> filtro, options |-> SinOpciones]

\* a page that starts one record late
opFindSaltoDeMas(filtro, limit, offset) ==
    [operation |-> "find", collection |-> "T_Eventos", filter |-> filtro,
     options |-> [sort |-> "Fecha_Inicio", skip |-> offset + 1, limit |-> limit,
                  projection |-> {"_id", "Nombre", "Fecha_Inicio",
                                  "Fecha_Conclusion"}]]

opFindBuscarEventos(filtro, limit, offset) ==
    [operation |-> "find", collection |-> "T_Eventos", filter |-> filtro,
     options |-> [sort |-> "Fecha_Inicio", skip |-> offset, limit |-> limit,
                  projection |-> {"_id", "Nombre", "Fecha_Inicio",
                                  "Fecha_Conclusion"}]]

opFindBuscarEventosPorMes(filtro, limit, offset) ==
    [operation |-> "find", collection |-> "T_Eventos", filter |-> filtro,
     options |-> [sort |-> "Fecha_Inicio", skip |-> offset, limit |-> limit,
                  projection |-> {"Id_Evento", "Nombre", "Fecha_Inicio",
                                  "Fecha_Conclusion"}]]

\* buscarEventos: _id becomes Id_Evento, a string
transformar(eventosRaw) ==
    [i \in DOMAIN eventosRaw |->
        [Id_Evento |-> toString(eventosRaw[i]._id),
         Nombre |-> eventosRaw[i].Nombre,
         Fecha_Inicio |-> eventosRaw[i].Fecha_Inicio,
         Fecha_Conclusion |-> eventosRaw[i].Fecha_Conclusion]]

\* total || 0
totalOCero(t) == IF t # 0 THEN t ELSE 0

SinRetorno == [tipo |-> "ninguno", eventos |-> <<>>, total |-> 0, error |-> ""]
Valor(eventos, t) ==
    [tipo |-> "valor", eventos |-> eventos, total |-> t, error |-> ""]
Lanzado(e) == [tipo |-> "error", eventos |-> <<>>, total |-> 0, error |-> e]

(***************************************************************************)
(* The GET / route of EventosRouter.                                       *)
(***************************************************************************)
parsear(q) ==
    [limit |-> IF Truthy(q.Limit) THEN Number(q.Limit.texto)
               ELSE Num(MAXIMA_CANTIDAD_EVENTOS),
     offset |-> IF Truthy(q.Offset) THEN Number(q.Offset.texto) ELSE Num(0),
     mes |-> IF Truthy(q.Mes) THEN Number(q.Mes.texto) ELSE Undefined,
     anio |-> IF Truthy(q.Anio) THEN Number(q.Anio.texto) ELSE Undefined]

\* a validation that forgets the lower bound of the offset
validarSinOffset(p) ==
    IF isNaN(p.limit) \/ p.limit.n < 1 \/ p.limit.n > MAXIMA_CANTIDAD_EVENTOS
    THEN "El limite debe ser un numero entre 1 y 100"
    ELSE IF isNaN(p.offset)
    THEN "El offset debe ser un numero mayor o igual a 0"
    ELSE IF p.mes.t # "undefined" /\ (isNaN(p.mes) \/ p.mes.n < 1 \/ p.mes.n > 12)
    THEN "El mes debe ser un numero entre 1 y 12"
    ELSE IF p.anio.t # "undefined"
            /\ (isNaN(p.anio) \/ p.anio.n < 1900 \/ p.anio.n > 2100)
    THEN "El anio debe ser un numero valido entre 1900 y 2100"
    ELSE ""

\* the message of the first check that fails, "" when all pass
validar(p) ==
    IF isNaN(p.limit) \/ p.limit.n < 1 \/ p.limit.n > MAXIMA_CANTIDAD_EVENTOS
    THEN "El limite debe ser un numero entre 1 y 100"
    ELSE IF isNaN(p.offset) \/ p.offset.n < 0
    THEN "El offset debe ser un numero mayor o igual a 0"
    ELSE IF p.mes.t # "undefined" /\ (isNaN(p.mes) \/ p.mes.n < 1 \/ p.mes.n > 12)
    THEN "El mes debe ser un numero entre 1 y 12"
    ELSE IF p.anio.t # "undefined"
            /\ (isNaN(p.anio) \/ p.anio.n < 1900 \/ p.anio.n > 2100)
    THEN "El anio debe ser un numero valido entre 1900 y 2100"
    ELSE ""

SinRespuesta == [status |-> 0, body |-> [success |-> FALSE]]

respuesta400(message) ==
    [status |-> 400,
     body |-> [success |-> FALSE, message |-> message,
               errorType |-> "INVALID_PARAMETERS"]]

\* a 500 answer that drops the error
respuesta500SinDetalle(error) ==
    [status |-> 500,
     body |-> [success |-> FALSE,
               message |-> "Error interno del servidor al buscar eventos",
               errorType |-> "UNKNOWN_ERROR", details |-> ""]]

respuesta500(error) ==
    [status |-> 500,
     body |-> [success |-> FALSE,
               message |-> "Error interno del servidor al buscar eventos",
               errorType |-> "UNKNOWN_ERROR", details |-> error]]

\* an empty page reported as a failure
respuestaVacioComoError(eventos, t, p) ==
    IF Len(eventos) = 0
    THEN [status |-> 404,
          body |-> [success |-> FALSE,
                    message |-> <<"No se encontraron eventos en el sistema",
                                  Undefined, Undefined>>,
                    data |-> <<>>, total |-> 0]]
    ELSE [status |-> 200,
          body |-> [success |-> TRUE,
                    message |-> <<"Se encontraron", Len(eventos), t,
                                  "(eventos mas antiguos)", Undefined, Undefined>>,
                    data |-> eventos, total |-> t]]

\* 404 chosen from the count instead of from the page
respuestaSegunTotal(eventos, t, p) ==
    IF t = 0
    THEN [status |-> 404,
          body |-> [success |-> TRUE,
                    message |-> <<"No se encontraron eventos en el sistema",
                                  Undefined, Undefined>>,
                    data |-> <<>>, total |-> 0]]
    ELSE [status |-> 200,
          body |-> [success |-> TRUE,
                    message |-> <<"Se encontraron", Len(eventos), t,
                                  "(eventos mas antiguos)", Undefined, Undefined>>,
                    data |-> eventos, total |-> t]]

\* the answer to a search that returned { eventos, total }
respuestaBusqueda(eventos, t, p) ==
    IF Len(eventos) = 0
    THEN [status |-> 404,
          body |-> [success |-> TRUE,
                    message |-> IF p.mes.t # "undefined"
                                THEN <<"No se encontraron eventos para el mes",
                                       p.mes, p.anio>>
                                ELSE <<"No se encontraron eventos en el sistema",
                                       Undefined, Undefined>>,
                    data |-> <<>>, total |-> 0]]
    ELSE [status |-> 200,
          body |-> [success |-> TRUE,
                    message |-> IF p.mes.t # "undefined"
                                THEN <<"Se encontraron", Len(eventos), t,
                                       "para el mes", p.mes, p.anio>>
                                ELSE <<"Se encontraron", Len(eventos), t,
                                       "(eventos mas antiguos)", Undefined,
                                       Undefined>>,
                    data |-> eventos, total |-> t]]

(***************************************************************************)
(* Inputs.                                                                 *)
(***************************************************************************)
Fecha(y, m, d, h, mi, s, milli) == setHours(NewDate(y, m - 1, d), h, mi, s, milli)

Documento(oid, id, nombre, inicio, fin) ==
    [_id |-> oid, Id_Evento |-> id, Nombre |-> nombre,
     Fecha_Inicio |-> inicio, Fecha_Conclusion |-> fin]

Documentos ==
    {Documento(<<0, 1>>, 1, "Matricula",
               Fecha(2024, 1, 31, 23, 59, 59, 999), Fecha(2024, 1, 31, 23, 59, 59, 999)),
     Documento(<<0, 2>>, 2, "Inicio de clases",
               Fecha(2024, 2, 1, 0, 0, 0, 0), Fecha(2024, 2, 1, 0, 0, 0, 0)),
     Documento(<<0, 10>>, 3, "Vacaciones",
               Fecha(2024, 1, 10, 8, 0, 0, 0), Fecha(2024, 3, 10, 18, 0, 0, 0)),
     Documento(<<1, 11>>, 4, "Aniversario",
               Fecha(2024, 2, 29, 23, 59, 59, 999), Fecha(2024, 3, 2, 12, 0, 0, 0)),
     Documento(<<1, 15>>, 5, "Simulacro",
               Fecha(2024, 2, 1, 0, 0, 0, 0), Fecha(2024, 2, 10, 12, 0, 0, 0)),
     Documento(<<15, 0>>, 6, "Clausura",
               Fecha(2025, 12, 31, 8, 0, 0, 0), Fecha(2026, 1, 2, 12, 0, 0, 0))}

Limits ==
    {Ausente, Texto(<<>>), Texto(<<"0">>), Texto(<<"1">>), Texto(<<"2">>),
     Texto(<<"1", "0", "0">>), Texto(<<"1", "0", "1">>), Texto(<<"a">>)}

Offsets ==
    {Ausente, Texto(<<"0">>), Texto(<<"1">>), Texto(<<"3">>),
     Texto(<<"-", "1">>), Texto(<<"x">>)}

Meses ==
    {Ausente, Texto(<<"0">>), Texto(<<"2">>), Texto(<<"1", "2">>),
     Texto(<<"1", "3">>), Texto(<<" ">>)}

Anios ==
    {Ausente, Texto(<<"1", "8", "0", "0">>), Texto(<<"1", "9", "0", "0">>),
     Texto(<<"2", "0", "2", "4">>), Texto(<<"2", "1", "0", "1">>)}

\* what new Date().getFullYear() may give
AniosActuales == {2024, 2025}

\* what a failed database operation may throw
Errores == {"MongoNetworkError", "Permiso denegado"}

(***************************************************************************)
(* The calls: Init and the steps.                                          *)
(***************************************************************************)
SinParams == [limit |-> Undefined, offset |-> Undefined, mes |-> Undefined,
              anio |-> Undefined]
SinQuery == [Limit |-> Ausente, Offset |-> Ausente, Mes |-> Ausente,
             Anio |-> Ausente]
SinLlamada == [f |-> "ninguna", args |-> <<>>]
SinFallo == [operation |-> "", error |-> ""]

Init ==
    /\ coleccion \in {c \in SUBSET Documentos : Cardinality(c) <= MaxDocs}
    /\ pc = "espera"
    /\ funcion = ""
    /\ query = SinQuery
    /\ params = SinParams
    /\ filtroComun = FiltroVacio
    /\ total = 0
    /\ operaciones = <<>>
    /\ retorno = SinRetorno
    /\ res = SinRespuesta
    /\ visto = {}
    /\ escrituras = 0
    /\ modificada = FALSE
    /\ fallo = SinFallo
    /\ llamada = SinLlamada
    /\ salida = <<>>

\* GET /: parse, validate, then buscarEventos up to its first await
GetEventos ==
    /\ pc = "espera"
    /\ \E q \in [Limit : Limits, Offset : Offsets, Mes : Meses, Anio : Anios] :
         LET p == parsear(q) IN
         /\ query' = q
         /\ funcion' = "GET /"
         /\ IF validar(p) # ""
            THEN /\ res' = respuesta400(validar(p))
                 /\ pc' = "fin"
                 /\ UNCHANGED <<params, filtroComun, operaciones>>
            ELSE \E anioActual \in AniosActuales :
                 /\ params' = p
                 /\ filtroComun' = filtroBuscarEventos(p.mes, p.anio, anioActual)
                 /\ operaciones' = <<opCount(filtroComun')>>
                 /\ pc' = "count"
                 /\ UNCHANGED res
    /\ UNCHANGED <<coleccion, total, retorno, visto, escrituras, modificada,
                   fallo, llamada, salida>>

\* a direct call of buscarEventosPorMes, up to its first await
LlamarBuscarEventosPorMes ==
    /\ pc = "espera"
    /\ \E mes \in {2, 12}, anio \in {Undefined, Num(2024)},
          limit \in {1, 2, 100}, offset \in {0, 1},
          anioActual \in AniosActuales :
         /\ funcion' = "buscarEventosPorMes"
         /\ params' = [limit |-> Num(limit), offset |-> Num(offset),
                       mes |-> Num(mes), anio |-> anio]
         /\ filtroComun' = filtroBuscarEventosPorMes(mes, anio, anioActual)
         /\ operaciones' = <<opCount(filtroComun')>>
         /\ pc' = "count"
    /\ UNCHANGED <<coleccion, query, total, retorno, res, visto, escrituras,
                   modificada, fallo, llamada, salida>>

Ultima == operaciones[Len(operaciones)]

\* the count succeeds: the function goes on and issues the find
CountDocumentsOk ==
    /\ pc = "count"
    /\ total' = countDocuments(coleccion, Ultima.filter)
    /\ operaciones' = Append(operaciones,
           IF funcion = "GET /"
           THEN opFindBuscarEventos(filtroComun, params.limit.n, params.offset.n)
           ELSE opFindBuscarEventosPorMes(filtroComun, params.limit.n,
                                          params.offset.n))
    /\ pc' = "find"
    /\ UNCHANGED <<coleccion, funcion, query, params, filtroComun, retorno, res,
                   visto, escrituras, modificada, fallo, llamada,
                   salida>>

\* the function's catch re-throws; the route's catch answers 500
Falla(e) ==
    /\ fallo' = [operation |-> Ultima.operation, error |-> e]
    /\ retorno' = Lanzado(e)
    /\ res' = IF funcion = "GET /" THEN respuesta500(e) ELSE res
    /\ pc' = "fin"

CountDocumentsFalla ==
    /\ pc = "count"
    /\ \E e \in Errores : Falla(e)
    /\ UNCHANGED <<coleccion, funcion, query, params, filtroComun, total,
                   operaciones, visto, escrituras, modificada, llamada, salida>>

\* the find succeeds: the function returns, the route answers
FindOk ==
    /\ pc = "find"
    /\ \E eventosRaw \in find(coleccion, Ultima.filter, Ultima.options) :
         LET eventos == IF funcion = "GET /" THEN transformar(eventosRaw)
                        ELSE eventosRaw
         IN /\ retorno' = Valor(eventos, totalOCero(total))
            /\ res' = IF funcion = "GET /"
                      THEN respuestaBusqueda(retorno'.eventos, retorno'.total, params)
                      ELSE res
    /\ visto' = Coincidentes(coleccion, Ultima.filter)
    /\ pc' = "fin"
    /\ UNCHANGED <<coleccion, funcion, query, params, filtroComun, total,
                   operaciones, escrituras, modificada, fallo, llamada, salida>>

FindFalla ==
    /\ pc = "find"
    /\ \E e \in Errores : Falla(e)
    /\ UNCHANGED <<coleccion, funcion, query, params, filtroComun, total,
                   operaciones, visto, escrituras, modificada, llamada, salida>>

\* another process inserts or deletes a document while the call is in progress
OtroProceso ==
    /\ pc \in {"count", "find"}
    /\ escrituras < MaxEscrituras
    /\ \E d \in Documentos :
         coleccion' = IF d \in coleccion THEN coleccion \ {d}
                      ELSE coleccion \cup {d}
    /\ escrituras' = escrituras + 1
    /\ modificada' = (modificada \/ pc = "find")
    /\ UNCHANGED <<pc, funcion, query, params, filtroComun, total, operaciones,
                   retorno, res, visto, fallo, llamada, salida>>

Next ==
    \/ GetEventos
    \/ LlamarBuscarEventosPorMes
    \/ CountDocumentsOk
    \/ CountDocumentsFalla
    \/ FindOk
    \/ FindFalla
    \/ OtroProceso

Spec == Init /\ [][Next]_vars

(***************************************************************************)
(* Properties of the route and of the paginated searches.                  *)
(***************************************************************************)
Respondido == funcion = "GET /" /\ pc = "fin"
Retornado == pc = "fin" /\ retorno.tipo = "valor"
Min(a, b) == IF a < b THEN a ELSE b
Max(a, b) == IF a > b THEN a ELSE b
Emitidas(operation) ==
    {i \in DOMAIN operaciones : operaciones[i].operation = operation}

\* C1: a request with a Limit outside [1,100] or not a number, an Offset
\* below 0 or not a number, a given Mes outside [1,12] or a given Año outside
\* [1900,2100] is answered 400, success false, INVALID_PARAMETERS, with the
\* message of the first failing check in the order limit, offset, month,
\* year, and no database operation is issued for it.
C1_ValidacionAntesDeConsultar ==
    funcion = "GET /" =>
        LET p == parsear(query)
            malLimit == p.limit.t = "NaN" \/ p.limit.n \notin 1..100
            malOffset == p.offset.t = "NaN" \/ p.offset.n < 0
            malMes == p.mes.t # "undefined"
                      /\ (p.mes.t = "NaN" \/ p.mes.n \notin 1..12)
            malAnio == p.anio.t # "undefined"
                       /\ (p.anio.t = "NaN" \/ p.anio.n \notin 1900..2100)
        IN (malLimit \/ malOffset \/ malMes \/ malAnio) =>
             /\ pc = "fin"
             /\ res.status = 400
             /\ res.body.success = FALSE
             /\ res.body.errorType = "INVALID_PARAMETERS"
             /\ res.body.message =
                  (IF malLimit THEN "El limite debe ser un numero entre 1 y 100"
                   ELSE IF malOffset
                   THEN "El offset debe ser un numero mayor o igual a 0"
                   ELSE IF malMes THEN "El mes debe ser un numero entre 1 y 12"
                   ELSE "El anio debe ser un numero valido entre 1900 y 2100")
             /\ operaciones = <<>>
             /\ retorno = SinRetorno

\* a request with month 13 and year 1800 is rejected for its month
C1_Testigo ==
    /\ Respondido
    /\ query.Mes = Texto(<<"1", "3">>)
    /\ query.Anio = Texto(<<"1", "8", "0", "0">>)
    /\ res.status = 400
    /\ res.body.message = "El mes debe ser un numero entre 1 y 12"

\* C2: a validated request whose search succeeds is answered 404 with
\* success true, data = [] and total = 0 when the search returned no event,
\* and otherwise 200 with success true, the events returned and the total
\* the search returned; an empty result is never success false.
C2_RespuestaDeBusqueda ==
    (Respondido /\ retorno.tipo = "valor") =>
        /\ res.body.success = TRUE
        /\ IF Len(retorno.eventos) = 0
           THEN res.status = 404 /\ res.body.data = <<>> /\ res.body.total = 0
           ELSE /\ res.status = 200
                /\ res.body.data = retorno.eventos
                /\ res.body.total = retorno.total
                /\ res.body.total = total

\* a 200 answer whose total exceeds the page
C2_Testigo ==
    /\ Respondido
    /\ res.status = 200
    /\ res.body.total > Len(res.body.data)

\* the stored document an event of a result stands for
EsDocumento(evento, d) ==
    /\ evento.Id_Evento = (IF funcion = "GET /" THEN toString(d._id)
                           ELSE d.Id_Evento)
    /\ evento.Nombre = d.Nombre
    /\ evento.Fecha_Inicio = d.Fecha_Inicio
    /\ evento.Fecha_Conclusion = d.Fecha_Conclusion

Anterior(a, b) == a.dia < b.dia \/ (a.dia = b.dia /\ a.ms < b.ms)

\* d can stand at 1-indexed position k of col sorted by Fecha_Inicio ascending
EnPosicion(d, k, col) ==
    /\ Cardinality({x \in col : Anterior(x.Fecha_Inicio, d.Fecha_Inicio)}) < k
    /\ Cardinality({x \in col : ~Anterior(d.Fecha_Inicio, x.Fecha_Inicio)}) >= k

\* C3: on a collection that does not change during the call, with N matching
\* events, limit L and offset O, buscarEventos and buscarEventosPorMes return
\* the records at positions O+1 .. min(O+L, N) of the matching events sorted
\* by Fecha_Inicio ascending, and total = N whatever L and O.
C3_Paginacion ==
    (Retornado /\ escrituras = 0) =>
        LET M == Coincidentes(coleccion, filtroComun)
            N == Cardinality(M)
            L == params.limit.n
            O == params.offset.n
            eventos == retorno.eventos
        IN /\ retorno.total = N
           /\ Len(eventos) = Max(0, Min(O + L, N) - O)
           /\ \A i \in 1..Len(eventos) :
                \E d \in M : EsDocumento(eventos[i], d) /\ EnPosicion(d, O + i, M)
           /\ \A i, j \in 1..Len(eventos) : i # j => eventos[i] # eventos[j]

\* the second of three matching events, asked with limit 1 and offset 1
C3_Testigo ==
    /\ Retornado
    /\ escrituras = 0
    /\ params.limit.n = 1
    /\ params.offset.n = 1
    /\ retorno.total = 3
    /\ Len(retorno.eventos) = 1

\* C7: a failed count or find is re-thrown unchanged, with no retry and no
\* partial result: each operation is issued at most once, a failed count
\* means the find is never issued, no value is returned, and the route
\* answers 500, success false, UNKNOWN_ERROR with the error as details.
C7_ErrorRelanzado ==
    /\ Cardinality(Emitidas("countDocuments")) <= 1
    /\ Cardinality(Emitidas("find")) <= 1
    /\ fallo # SinFallo =>
         /\ pc = "fin"
         /\ retorno = Lanzado(fallo.error)
         /\ fallo.operation = "countDocuments" => Emitidas("find") = {}
         /\ funcion = "GET /" =>
              /\ res.status = 500
              /\ res.body.success = FALSE
              /\ res.body.errorType = "UNKNOWN_ERROR"
              /\ res.body.details = fallo.error

\* the find of a request fails after its count succeeded
C7_Testigo ==
    /\ Respondido
    /\ fallo.operation = "find"
    /\ Len(operaciones) = 2
    /\ res.status = 500

\* C8: without a month the unified search applies no date filter, with or
\* without a year: the count and the find carry the empty filter, every
\* stored event matches and total is the size of the collection.
C8_SinMesSinFiltro ==
    (funcion = "GET /" /\ validar(parsear(query)) = ""
       /\ parsear(query).mes.t = "undefined") =>
        /\ operaciones # <<>>
        /\ \A i \in DOMAIN operaciones : operaciones[i].filter = FiltroVacio
        /\ (pc = "find" /\ ~modificada) => total = Cardinality(coleccion)
        /\ (Retornado /\ ~modificada) =>
             /\ visto = coleccion
             /\ retorno.total = Cardinality(coleccion)

\* a year without a month: events of another year are found
C8_Testigo ==
    /\ Respondido
    /\ query.Mes = Ausente
    /\ query.Anio = Texto(<<"2", "0", "2", "4">>)
    /\ ~modificada
    /\ res.status = 200
    /\ res.body.total = 3
    /\ \E i \in 1..Len(res.body.data) :
         res.body.data[i].Fecha_Inicio = Fecha(2025, 12, 31, 8, 0, 0, 0)

\* C9: the route chooses 404 from the length of the page: with N > 0
\* matching events and offset >= N the answer is 404 with data = [] and
\* total = 0, so only a 200 answer carries the number of matching events.
C9_PaginaVaciaEs404 ==
    (Respondido /\ retorno.tipo = "valor") =>
        /\ (Cardinality(visto) > 0 /\ params.offset.n >= Cardinality(visto)) =>
             res.status = 404 /\ res.body.data = <<>> /\ res.body.total = 0
        /\ res.status = 404 => res.body.total = 0
        /\ (res.status = 200 /\ ~modificada) => res.body.total = Cardinality(visto)

\* matching events exist, the count says so, and the answer is 404, total 0
C9_Testigo ==
    /\ Respondido
    /\ ~modificada
    /\ Cardinality(visto) > 0
    /\ retorno.total = Cardinality(visto)
    /\ res.status = 404
    /\ res.body.total = 0

\* C10: the count is issued before the find, as two operations with the same
\* filter; with no write between them len(eventos) =
\* min(limit, max(0, total - offset)) <= total, and a write between them can
\* give len(eventos) > total or an empty page with total > offset.
C10_CountAntesDeFind ==
    /\ Len(operaciones) <= 2
    /\ Len(operaciones) >= 1 => operaciones[1].operation = "countDocuments"
    /\ Len(operaciones) = 2 =>
         /\ operaciones[2].operation = "find"
         /\ operaciones[2].filter = operaciones[1].filter
    /\ pc = "count" => Len(operaciones) = 1
    /\ pc = "find" => Len(operaciones) = 2
    /\ (Retornado /\ ~modificada) =>
         /\ Len(retorno.eventos) =
              Min(params.limit.n, Max(0, retorno.total - params.offset.n))
         /\ Len(retorno.eventos) <= retorno.total

\* a write between the count and the find: more events than the total
C10_Testigo ==
    /\ Retornado
    /\ modificada
    /\ Len(retorno.eventos) > retorno.total

\* a write between the count and the find: total > offset and an empty page
C10_TestigoPaginaVacia ==
    /\ Retornado
    /\ modificada
    /\ retorno.total > params.offset.n
    /\ Len(retorno.eventos) = 0

(***************************************************************************)
(* The filters, the month range and the conflict check, each applied once  *)
(* to one input.                                                           *)
(***************************************************************************)
\* instants around two day boundaries
Instantes == {[dia |-> d, ms |-> m] : d \in 19753..19755, m \in {0, 86399999}}

\* the hours 10:00 .. 14:00 of one day
Horas == {[dia |-> 19754, ms |-> h * 3600000] : h \in 10..14}

Evento(id, inicio, fin) ==
    [Id_Evento |-> id, Nombre |-> "Evento", Fecha_Inicio |-> inicio,
     Fecha_Conclusion |-> fin]

Hora(h) == [dia |-> 19754, ms |-> h * 3600000]

EventosDelDia ==
    {Evento(1, Hora(11), Hora(13)), Evento(2, Hora(12), Hora(13)),
     Evento(3, Hora(13), Hora(14)), Evento(4, Hora(10), Hora(10))}

Listas(S, n) == UNION {[1..k -> S] : k \in 0..n}

\* the years the route lets through: 1900..2100, or none
AniosDados ==
    {Undefined, Num(1900), Num(1970), Num(1999), Num(2000), Num(2023),
     Num(2024), Num(2100)}

InitFunciones ==
    /\ coleccion = {}
    /\ pc = "funciones"
    /\ funcion = ""
    /\ query = SinQuery
    /\ params = SinParams
    /\ filtroComun = FiltroVacio
    /\ total = 0
    /\ operaciones = <<>>
    /\ retorno = SinRetorno
    /\ res = SinRespuesta
    /\ visto = {}
    /\ escrituras = 0
    /\ modificada = FALSE
    /\ fallo = SinFallo
    /\ llamada = SinLlamada
    /\ salida = <<>>

SoloFunciones ==
    UNCHANGED <<coleccion, pc, funcion, query, params, filtroComun, total,
                operaciones, retorno, res, visto, escrituras, modificada,
                fallo>>

\* the filter of buscarEventosPorRango applied to one stored event
FiltrarPorRango ==
    /\ llamada = SinLlamada
    /\ \E fechaInicio \in Instantes, fechaFin \in Instantes,
          inicio \in Instantes, fin \in Instantes :
         /\ llamada' = [f |-> "buscarEventosPorRango",
                        args |-> <<fechaInicio, fechaFin, Evento(1, inicio, fin)>>]
         /\ salida' = Coincide(Evento(1, inicio, fin),
                               filtroBuscarEventosPorRango(fechaInicio, fechaFin))
    /\ SoloFunciones

\* the filter of buscarEventos and of buscarEventosPorMes applied to one document
FiltrarPorMes ==
    /\ llamada = SinLlamada
    /\ \E mes \in {1, 2, 3, 12}, anio \in {Undefined, Num(2024), Num(2025)},
          anioActual \in AniosActuales, d \in Documentos,
          f \in {"buscarEventos", "buscarEventosPorMes"} :
         /\ llamada' = [f |-> f, args |-> <<mes, anio, anioActual, d>>]
         /\ salida' = Coincide(d, IF f = "buscarEventos"
                                  THEN filtroBuscarEventos(Num(mes), anio, anioActual)
                                  ELSE filtroBuscarEventosPorMes(mes, anio, anioActual))
    /\ SoloFunciones

\* the filter of buscarEventosPorAño applied to one document
FiltrarPorAnio ==
    /\ llamada = SinLlamada
    /\ \E anio \in {2023, 2024, 2025, 2026}, d \in Documentos :
         /\ llamada' = [f |-> "buscarEventosPorAnio", args |-> <<anio, d>>]
         /\ salida' = Coincide(d, filtroBuscarEventosPorAnio(anio))
    /\ SoloFunciones

\* the filter buscarEventos and buscarEventosPorMes build for a month
FiltroDelMes ==
    /\ llamada = SinLlamada
    /\ \E mes \in 1..12, anio \in AniosDados, anioActual \in AniosActuales,
          f \in {"buscarEventos", "buscarEventosPorMes"} :
         /\ llamada' = [f |-> "filtroComun", args |-> <<f, mes, anio, anioActual>>]
         /\ salida' = IF f = "buscarEventos"
                      THEN filtroBuscarEventos(Num(mes), anio, anioActual)
                      ELSE filtroBuscarEventosPorMes(mes, anio, anioActual)
    /\ SoloFunciones

VerificarConflicto ==
    /\ llamada = SinLlamada
    /\ \E fechaInicio \in Horas, fechaFin \in Horas,
          eventos \in Listas(EventosDelDia, MaxLista) :
         /\ llamada' = [f |-> "verificarConflictoConEventos",
                        args |-> <<fechaInicio, fechaFin, eventos>>]
         /\ salida' = verificarConflictoConEventos(fechaInicio, fechaFin, eventos)
    /\ SoloFunciones

NextFunciones ==
    \/ FiltrarPorRango
    \/ FiltrarPorMes
    \/ FiltrarPorAnio
    \/ FiltroDelMes
    \/ VerificarConflicto

SpecFunciones == InitFunciones /\ [][NextFunciones]_vars

(***************************************************************************)
(* Properties of the filters, the month range and the conflict check.      *)
(***************************************************************************)
\* the interval [inicio, fin] meets [desde, hasta], bounds included
Intersecta(inicio, fin, desde, hasta) ==
    ~Anterior(hasta, inicio) /\ ~Anterior(fin, desde)

\* the range the call in llamada asks for
RangoPedido ==
    CASE llamada.f = "buscarEventosPorRango" -> <<llamada.args[1], llamada.args[2]>>
      [] llamada.f \in {"buscarEventos", "buscarEventosPorMes"} ->
           LET a == IF llamada.args[2].t = "undefined" THEN llamada.args[3]
                    ELSE llamada.args[2].n
           IN <<inicioMes(a, llamada.args[1]), finMes(a, llamada.args[1])>>
      [] llamada.f = "buscarEventosPorAnio" ->
           <<inicioAnio(llamada.args[1]), finAnio(llamada.args[1])>>

EventoPedido == llamada.args[Len(llamada.args)]

\* C4: the three-clause filter of the month, year and range queries matches
\* a stored event with start <= end exactly when [start, end] meets
\* [rangeStart, rangeEnd], bounds included, for every rangeStart <= rangeEnd.
C4_FiltroEsInterseccion ==
    (llamada.f \in {"buscarEventosPorRango", "buscarEventos",
                    "buscarEventosPorMes", "buscarEventosPorAnio"}
       /\ ~Anterior(RangoPedido[2], RangoPedido[1])
       /\ ~Anterior(EventoPedido.Fecha_Conclusion, EventoPedido.Fecha_Inicio)) =>
        (salida <=> Intersecta(EventoPedido.Fecha_Inicio,
                               EventoPedido.Fecha_Conclusion,
                               RangoPedido[1], RangoPedido[2]))

\* an event that ends at the first instant of the range matches
C4_Testigo ==
    /\ llamada.f = "buscarEventosPorRango"
    /\ Anterior(llamada.args[1], llamada.args[2])
    /\ Anterior(EventoPedido.Fecha_Inicio, EventoPedido.Fecha_Conclusion)
    /\ EventoPedido.Fecha_Conclusion = llamada.args[1]
    /\ salida = TRUE

\* an event that spans the whole range matches
C4_TestigoAbarca ==
    /\ llamada.f = "buscarEventosPorRango"
    /\ Anterior(EventoPedido.Fecha_Inicio, llamada.args[1])
    /\ Anterior(llamada.args[1], llamada.args[2])
    /\ Anterior(llamada.args[2], EventoPedido.Fecha_Conclusion)
    /\ salida = TRUE

\* an event that ends one millisecond before a month does not match it
C4_TestigoMes ==
    /\ llamada.f = "buscarEventos"
    /\ llamada.args[1] = 2
    /\ EventoPedido.Fecha_Conclusion = Fecha(2024, 1, 31, 23, 59, 59, 999)
    /\ llamada.args[2] = Num(2024)
    /\ salida = FALSE

\* C5: verificarConflictoConEventos returns, in their order, exactly the
\* events of the list with Fecha_Inicio <= fechaFin and Fecha_Conclusion >=
\* fechaInicio, bounds included: for [10:00, 12:00] the events [11:00, 13:00]
\* and [12:00, 13:00] are returned and [13:00, 14:00] is not.
C5_ConflictoInclusivo ==
    llamada.f = "verificarConflictoConEventos" =>
        LET fechaInicio == llamada.args[1]
            fechaFin == llamada.args[2]
            eventos == llamada.args[3]
            EnConflicto(e) == /\ ~Anterior(fechaFin, e.Fecha_Inicio)
                              /\ ~Anterior(e.Fecha_Conclusion, fechaInicio)
        IN /\ salida = SelectSeq(eventos, EnConflicto)
           /\ (fechaInicio = Hora(10) /\ fechaFin = Hora(12)) =>
                \A i \in 1..Len(eventos) :
                    /\ eventos[i].Id_Evento \in {1, 2} =>
                         \E j \in 1..Len(salida) : salida[j] = eventos[i]
                    /\ eventos[i].Id_Evento = 3 =>
                         \A j \in 1..Len(salida) : salida[j] # eventos[i]

\* the three events of the example, in the order given
C5_Testigo ==
    /\ llamada.f = "verificarConflictoConEventos"
    /\ llamada.args[1] = Hora(10)
    /\ llamada.args[2] = Hora(12)
    /\ llamada.args[3] = <<Evento(3, Hora(13), Hora(14)), Evento(2, Hora(12), Hora(13)),
                           Evento(1, Hora(11), Hora(13))>>
    /\ salida = <<Evento(2, Hora(12), Hora(13)), Evento(1, Hora(11), Hora(13))>>

EsBisiesto(y) == (y % 4 = 0 /\ y % 100 # 0) \/ y % 400 = 0

UltimoDia(mes, y) ==
    IF mes \in {4, 6, 9, 11} THEN 30
    ELSE IF mes = 2 THEN (IF EsBisiesto(y) THEN 29 ELSE 28)
    ELSE 31

RECURSIVE DiasDeMesesAntes(_, _)
DiasDeMesesAntes(mes, y) ==
    IF mes = 1 THEN 0 ELSE DiasDeMesesAntes(mes - 1, y) + UltimoDia(mes - 1, y)

\* the day number of a calendar date, counted from 1970-01-01
DiaCivil(y, mes, d) ==
    365 * (y - 1970) + Cardinality({b \in 1970..(y - 1) : EsBisiesto(b)})
        - Cardinality({b \in y..1969 : EsBisiesto(b)})
        + DiasDeMesesAntes(mes, y) + d - 1

C6_TestigoDiciembre ==
    /\ llamada.f = "filtroComun"
    /\ llamada.args[2] = 12
    /\ llamada.args[3] = Undefined
    /\ llamada.args[4] = 2025
    /\ salida.args[1].args[2].valor.dia = DiaCivil(2026, 1, 1) - 1

====
